---- MODULE Spec2Model ----
(***************************************************************************)
(* The API-key store (db_manager.py), the two access checks                *)
(* (router/dependencies.py) and the key-management and chat routes         *)
(* (router/keys.py, router/chat.py) as a state machine.                    *)
(*                                                                         *)
(* Every DatabaseManager method opens its own connection, runs one or two  *)
(* SQL statements and commits when the `with` block is left.  The model    *)
(* takes one step per SQL statement and one for leaving the block, so      *)
(* calls made over different connections interleave between statements.    *)
(* The storage engine gives each statement its usual meaning: a statement  *)
(* is atomic, a writer keeps its lock until it commits or rolls back, and  *)
(* a reader sees committed rows only.                                      *)
(***************************************************************************)
EXTENDS Integers, Sequences, FiniteSets, TLC

\* ---------------------------------------------------------------- bounds
MaxCalls == 3
MaxRequests == 2
MaxTime  == 2
MaxChunks == 2

\* The callers whose calls and requests may overlap: two connections, two
\* request tasks.
Procs == {1, 2}

\* settings.ADMIN_TOKEN.
ADMIN_TOKEN == "adm"

\* Key values: an ordinary one, and one that is spelled like the admin secret
\* (create_api_key(key) takes any string).
Keys  == {"k1", ADMIN_TOKEN}
Descriptions == {"None", "d1"}

\* NULL of a TIMESTAMP column, None of a cursor.
Null == 0

\* settings.DEFAULT_MODEL and the names of settings.AVAILABLE_MODELS.
DEFAULT_MODEL == "llama-3.3-70b"
AVAILABLE_MODELS ==
  {"o3-mini", "gpt-4o-mini", "llama-3.3-70b", "claude-3-haiku", "mixtral-8x7b"}

VARIABLES
  IGNPRE_API_KEYS,  \* settings.IGNPRE_API_KEYS, fixed at start
  DATABASE_URL,     \* TRUE when settings.DATABASE_URL is set (PostgreSQL), FALSE for SQLite
  started,          \* db_manager = DatabaseManager() has run
  tableExists,      \* openai_api_keys exists in the store
  table,            \* committed rows of openai_api_keys
  idSeq,            \* last id handed out (SERIAL sequence / sqlite_sequence)
  now,              \* the clock behind CURRENT_TIMESTAMP and NOW()
  ncalls,           \* calls and requests begun so far
  pc,               \* per caller: where it stands
  call,             \* per caller: the DatabaseManager method under way and its arguments
  conn,             \* per caller: the connection of get_connection
  lock,             \* per caller: the storage lock its open transaction holds
  tx,               \* per caller: uncommitted row versions of its transaction
  result,           \* per caller: the local `result` / cursor state of the method
  ret,              \* per caller: what the method returns (or raises) when the block is left
  req,              \* per caller: the HTTP request under way
  resp,             \* per caller: the HTTP response
  provider,         \* per caller: the call of DDGS().chat / DDGS().chat_yield made for its request
  frames,           \* per caller: the frames its stream generator has yielded
  response,         \* per caller: what chat_completions returned or raised
  gen,              \* history: per key, how many creations and deletions were committed
  trueReturns,      \* history: per key, validations that returned true since the row was created
  valDone,          \* history: per key, validations begun and finished since the last creation or deletion
  startGen          \* history: per caller, gen[key], the row's presence and its usage_count when the call began

vars == <<IGNPRE_API_KEYS, DATABASE_URL, started, tableExists, table, idSeq, now, ncalls,
          pc, call, conn, lock, tx, result, ret, req, resp,
          provider, frames, response,
          gen, trueReturns, valDone, startGen>>

config  == <<IGNPRE_API_KEYS, DATABASE_URL>>
store   == <<tableExists, table, idSeq>>
history == <<gen, trueReturns, valDone, startGen>>
chat    == <<provider, frames, response>>

\* ------------------------------------------------------------ row values
NewRow(id, key, description, at) ==
  [id |-> id, key |-> key, description |-> description, created_at |-> at,
   last_used_at |-> Null, usage_count |-> 0]

\* Variant: the WHERE clause is lost and every row matches.
RowsAnyKey(tab, key) == tab
\* WHERE key = ?
RowsWithKey(tab, key) == {r \in tab : r.key = key}

\* Variants: the UPDATE forgets the counter; forgets the timestamp; also
\* rewrites created_at.
UsedNoCount(r, at) == [r EXCEPT !.last_used_at = at]
UsedNoStamp(r, at) == [r EXCEPT !.usage_count = @ + 1]
UsedRestamps(r, at) == [r EXCEPT !.usage_count = @ + 1, !.last_used_at = at, !.created_at = at + 1]
\* Variant: a request is counted twice.
UsedTwice(r, at) == [r EXCEPT !.usage_count = @ + 2, !.last_used_at = at]
\* SET usage_count = usage_count + 1, last_used_at = <now>
Used(r, at) == [r EXCEPT !.usage_count = @ + 1, !.last_used_at = at]

NoCall   == [op |-> "none", key |-> "-", description |-> "None"]
NoLock   == [kind |-> "none", key |-> "-"]
NoTx     == [del |-> {}, add |-> {}]
NoResult == [id |-> Null, rowcount |-> -1]
NoRet    == [kind |-> "none"]
NoBody   == [model |-> "", stream |-> FALSE, messages |-> <<>>]
NoReq    == [route |-> "none", header |-> [present |-> FALSE, words |-> <<>>], key |-> "-", description |-> "None",
             body |-> NoBody]
NoResp   == [status |-> 0, detail |-> ""]
NoStart  == [gen |-> -1, present |-> FALSE, count |-> 0]
NoProvider == [method |-> "none", prompt |-> "", model |-> "", calls |-> 0, pulls |-> 0,
               yielded |-> 0, state |-> "none", out |-> ""]
NoResponse == [object |-> "none"]


\* ------------------------------------------------- the storage engine
\* Variant: the key column is declared without UNIQUE.
NoUniqueConstraint(tab, key) == FALSE
\* key TEXT UNIQUE NOT NULL: an INSERT of a key some row already holds is refused.
UniqueViolation(tab, key) == RowsWithKey(tab, key) # {}

\* Variant: statements of open transactions do not wait for each other (the
\* count is read and written back outside the engine's locking).
CanWriteUnlocked(p, key, kind) == TRUE
\* A writing statement waits for the transactions that stand in its way.  SQLite
\* has one writer per database file; PostgreSQL makes an INSERT wait for any open
\* transaction that touched the same key, and an UPDATE or DELETE for an open
\* transaction that updated or deleted the same row.
CanWrite(p, key, kind) ==
  IF DATABASE_URL
  THEN IF kind = "ins"
       THEN \A q \in Procs \ {p} : lock[q].key # key
       ELSE \A q \in Procs \ {p} : ~(lock[q].kind = "row" /\ lock[q].key = key)
  ELSE \A q \in Procs \ {p} : lock[q].kind = "none"

\* The lock the statement leaves its transaction with, kept until the block is left.
Acquired(key, kind, touched) ==
  IF DATABASE_URL
  THEN IF touched THEN [kind |-> kind, key |-> key] ELSE NoLock
  ELSE [kind |-> "db", key |-> "-"]

\* Variant: a SELECT without ORDER BY.
AnyOrder(tab) ==
  {s \in [1..Cardinality(tab) -> tab] :
     \A i, j \in 1..Cardinality(tab) : i # j => s[i] # s[j]}
\* ORDER BY created_at DESC: every order of the rows that is non-increasing in
\* created_at (the order among equal timestamps is the engine's choice).
NewestFirst(tab) ==
  {s \in [1..Cardinality(tab) -> tab] :
     /\ \A i, j \in 1..Cardinality(tab) : i # j => s[i] # s[j]
     /\ \A i, j \in 1..Cardinality(tab) : i < j => s[i].created_at >= s[j].created_at}

\* ------------------------------------------------------------------ Init
Init ==
  /\ IGNPRE_API_KEYS \in BOOLEAN
  /\ DATABASE_URL \in BOOLEAN
  /\ started = FALSE
  /\ tableExists = FALSE
  /\ table = {}
  /\ idSeq = 0
  /\ now = 1
  /\ ncalls = 0
  /\ pc = [p \in Procs |-> "idle"]
  /\ call = [p \in Procs |-> NoCall]
  /\ conn = [p \in Procs |-> "none"]
  /\ lock = [p \in Procs |-> NoLock]
  /\ tx = [p \in Procs |-> NoTx]
  /\ result = [p \in Procs |-> NoResult]
  /\ ret = [p \in Procs |-> NoRet]
  /\ req = [p \in Procs |-> NoReq]
  /\ resp = [p \in Procs |-> NoResp]
  /\ provider = [p \in Procs |-> NoProvider]
  /\ frames = [p \in Procs |-> <<>>]
  /\ response = [p \in Procs |-> NoResponse]
  /\ gen = [k \in Keys |-> 0]
  /\ trueReturns = [k \in Keys |-> 0]
  /\ valDone = [k \in Keys |-> [whole |-> 0, other |-> 0]]
  /\ startGen = [p \in Procs |-> NoStart]

\* db_manager = DatabaseManager(): __init__ runs initialize_db once, before any
\* request is served.
Startup ==
  /\ ~started
  /\ started' = TRUE
  /\ tableExists' = (IF IGNPRE_API_KEYS THEN tableExists ELSE TRUE)
  /\ UNCHANGED <<config, table, idSeq, now, ncalls, pc, call, conn, lock, tx, result,
                 ret, req, resp, history>>
  /\ UNCHANGED chat

\* CURRENT_TIMESTAMP / NOW() as a statement reads it: the clock has stood still
\* since it was last read, or has moved on.
ClockReads == {t \in {now, now + 1} : t <= MaxTime}

\* A caller is free to begin a call or a request: it has none under way.
Free(p) ==
  \/ pc[p] \in {"idle", "responded"}
  \/ pc[p] = "done" /\ req[p].route = "none"

\* ------------------------------------------- DatabaseManager: method entry
\* What each method returns at once when IGNPRE_API_KEYS is set.
BypassReturn(c) ==
  CASE c.op = "create"     -> [kind |-> "record", val |-> [key |-> c.key, description |-> c.description]]
    [] c.op = "delete"     -> [kind |-> "bool", val |-> TRUE]
    [] c.op = "validate"   -> [kind |-> "bool", val |-> TRUE]
    [] c.op = "list"       -> [kind |-> "list", val |-> <<>>]
    [] c.op = "initialize" -> [kind |-> "none"]

\* Variant: a method that goes to the store without testing IGNPRE_API_KEYS.
EnterIgnoringBypass(p, c) ==
  /\ call' = [call EXCEPT ![p] = c]
  /\ pc' = [pc EXCEPT ![p] = "stmt"]
  /\ ret' = [ret EXCEPT ![p] = NoRet]
  /\ conn' = [conn EXCEPT ![p] = "open"]
  /\ result' = [result EXCEPT ![p] = NoResult]
  /\ startGen' = [startGen EXCEPT ![p] = NoStart]
  /\ UNCHANGED <<config, started, store, lock, tx, gen, trueReturns, valDone>>

\* Entry of a method: the bypass test, then `with self.get_connection() as conn`.
Enter(p, c) ==
  /\ call' = [call EXCEPT ![p] = c]
  /\ IF IGNPRE_API_KEYS
     THEN /\ pc' = [pc EXCEPT ![p] = "done"]
          /\ ret' = [ret EXCEPT ![p] = BypassReturn(c)]
          /\ conn' = [conn EXCEPT ![p] = "none"]
     ELSE /\ pc' = [pc EXCEPT ![p] = "stmt"]
          /\ ret' = [ret EXCEPT ![p] = NoRet]
          /\ conn' = [conn EXCEPT ![p] = "open"]
  /\ result' = [result EXCEPT ![p] = NoResult]
  /\ startGen' = [startGen EXCEPT ![p] =
                    IF c.op \in {"validate", "delete"}
                    THEN [gen |-> gen[c.key],
                          present |-> \E r \in table : r.key = c.key,
                          count |-> IF \E r \in table : r.key = c.key
                                    THEN (CHOOSE r \in table : r.key = c.key).usage_count
                                    ELSE 0]
                    ELSE NoStart]
  /\ UNCHANGED <<config, started, store, lock, tx, gen, trueReturns, valDone>>

\* A caller of the store itself (not through a route) calls one of its methods.
StoreCall(p, c) ==
  /\ started
  /\ Free(p)
  /\ ncalls < MaxCalls
  /\ ncalls' = ncalls + 1
  /\ Enter(p, c)
  /\ now' = now
  /\ req' = [req EXCEPT ![p] = NoReq]
  /\ resp' = [resp EXCEPT ![p] = NoResp]
  /\ UNCHANGED chat

Calls ==
  [op : {"create"}, key : Keys, description : Descriptions]
    \cup [op : {"delete", "validate"}, key : Keys, description : {"None"}]
    \cup [op : {"list", "initialize"}, key : {"-"}, description : {"None"}]


\* ---------------------------------------- DatabaseManager: the statements
Raise(what) == [kind |-> "raise", val |-> what]
Bool(b)     == [kind |-> "bool", val |-> b]

\* Variant: CREATE TABLE without IF NOT EXISTS.
initialize_db_strict(p) ==
  /\ pc[p] = "stmt" /\ call[p].op = "initialize"
  /\ tableExists' = TRUE
  /\ ret' = [ret EXCEPT ![p] = IF tableExists THEN [kind |-> "raise", val |-> "OperationalError"]
                                ELSE [kind |-> "none"]]
  /\ pc' = [pc EXCEPT ![p] = "exit"]
  /\ UNCHANGED <<config, started, table, idSeq, now, ncalls, call, conn, lock, tx,
                 result, req, resp, history>>
  /\ UNCHANGED chat

\* initialize_db: CREATE TABLE IF NOT EXISTS openai_api_keys (...).
initialize_db(p) ==
  /\ pc[p] = "stmt" /\ call[p].op = "initialize"
  /\ tableExists' = TRUE
  /\ ret' = [ret EXCEPT ![p] = [kind |-> "none"]]
  /\ pc' = [pc EXCEPT ![p] = "exit"]
  /\ UNCHANGED <<config, started, table, idSeq, now, ncalls, call, conn, lock, tx,
                 result, req, resp, history>>
  /\ UNCHANGED chat

\* create_api_key: INSERT INTO openai_api_keys (key, description) and the read-back
\* of id, key, description, created_at (RETURNING, or SELECT ... WHERE id = lastrowid).
create_api_key(p) ==
  LET key == call[p].key
  IN
  /\ pc[p] = "stmt" /\ call[p].op = "create"
  /\ CanWrite(p, key, "ins")
  /\ \E at \in ClockReads :
     LET row == NewRow(idSeq + 1, key, call[p].description, at) IN
     /\ now' = at
     /\ IF UniqueViolation(table, key)
        THEN /\ ret' = [ret EXCEPT ![p] = Raise("IntegrityError")]
             /\ tx' = tx
             /\ result' = result
             /\ lock' = [lock EXCEPT ![p] = Acquired(key, "ins", FALSE)]
             /\ idSeq' = (IF DATABASE_URL THEN idSeq + 1 ELSE idSeq)
        ELSE /\ ret' = [ret EXCEPT ![p] =
                          [kind |-> "record",
                           val |-> [id |-> row.id, key |-> row.key,
                                    description |-> row.description,
                                    created_at |-> row.created_at]]]
             /\ tx' = [tx EXCEPT ![p] = [del |-> {}, add |-> {row}]]
             /\ result' = [result EXCEPT ![p] = [id |-> row.id, rowcount |-> 1]]
             /\ lock' = [lock EXCEPT ![p] = Acquired(key, "ins", TRUE)]
             /\ idSeq' = idSeq + 1
  /\ pc' = [pc EXCEPT ![p] = "exit"]
  /\ UNCHANGED <<config, started, tableExists, table, ncalls, call, conn,
                 req, resp, history>>
  /\ UNCHANGED chat

\* delete_api_key: DELETE FROM openai_api_keys WHERE key = ?; deleted = rowcount > 0.
delete_api_key(p) ==
  LET key == call[p].key
      hit == RowsWithKey(table, key)
  IN
  /\ pc[p] = "stmt" /\ call[p].op = "delete"
  /\ CanWrite(p, key, "row")
  /\ tx' = [tx EXCEPT ![p] = [del |-> hit, add |-> {}]]
  /\ lock' = [lock EXCEPT ![p] = Acquired(key, "row", hit # {})]
  /\ result' = [result EXCEPT ![p] = [id |-> Null, rowcount |-> Cardinality(hit)]]
  /\ ret' = [ret EXCEPT ![p] = Bool(Cardinality(hit) > 0)]
  /\ pc' = [pc EXCEPT ![p] = "exit"]
  /\ UNCHANGED <<config, started, store, now, ncalls, call, conn, req, resp, history>>
  /\ UNCHANGED chat

\* The UPDATE of validate_api_key: usage_count = usage_count + 1, last_used_at = now,
\* on the rows holding the key.
IncrementUsage(p, key) ==
  LET hit == RowsWithKey(table, key) IN
  \E at \in ClockReads :
    /\ now' = at
    /\ tx' = [tx EXCEPT ![p] = [del |-> hit, add |-> {Used(r, at) : r \in hit}]]
    /\ lock' = [lock EXCEPT ![p] = Acquired(key, "row", hit # {})]

\* validate_api_key with DATABASE_URL: UPDATE ... WHERE key = %s RETURNING id.
validate_api_key_returning(p) ==
  LET key == call[p].key
      hit == RowsWithKey(table, key)
  IN
  /\ pc[p] = "stmt" /\ call[p].op = "validate" /\ DATABASE_URL
  /\ CanWrite(p, key, "row")
  /\ IncrementUsage(p, key)
  /\ \E id \in (IF hit = {} THEN {Null} ELSE {r.id : r \in hit}) :
       /\ result' = [result EXCEPT ![p] = [id |-> id, rowcount |-> Cardinality(hit)]]
       /\ ret' = [ret EXCEPT ![p] = Bool(id # Null)]
  /\ pc' = [pc EXCEPT ![p] = "exit"]
  /\ UNCHANGED <<config, started, store, ncalls, call, conn, req, resp, history>>
  /\ UNCHANGED chat

\* validate_api_key on SQLite, first statement: SELECT id ... WHERE key = ?.
\* Without a row the UPDATE is skipped and the method returns False.
validate_api_key_select(p) ==
  LET key == call[p].key
      hit == RowsWithKey(table, key)
  IN
  /\ pc[p] = "stmt" /\ call[p].op = "validate" /\ ~DATABASE_URL
  /\ \E id \in (IF hit = {} THEN {Null} ELSE {r.id : r \in hit}) :
       /\ result' = [result EXCEPT ![p] = [id |-> id, rowcount |-> -1]]
       /\ ret' = [ret EXCEPT ![p] = Bool(id # Null)]
       /\ pc' = [pc EXCEPT ![p] = IF id # Null THEN "update" ELSE "exit"]
  /\ UNCHANGED <<config, started, store, now, ncalls, call, conn, lock, tx,
                 req, resp, history>>
  /\ UNCHANGED chat

\* validate_api_key on SQLite, second statement: `if result:` UPDATE ... WHERE key = ?.
validate_api_key_update(p) ==
  LET key == call[p].key
      hit == RowsWithKey(table, key)
  IN
  /\ pc[p] = "update"
  /\ CanWrite(p, key, "row")
  /\ IncrementUsage(p, key)
  /\ result' = [result EXCEPT ![p].rowcount = Cardinality(hit)]
  /\ pc' = [pc EXCEPT ![p] = "exit"]
  /\ UNCHANGED <<config, started, store, ncalls, call, conn, ret, req, resp, history>>
  /\ UNCHANGED chat

\* get_all_api_keys: SELECT ... ORDER BY created_at DESC.
get_all_api_keys(p) ==
  /\ pc[p] = "stmt" /\ call[p].op = "list"
  /\ \E s \in NewestFirst(table) :
       ret' = [ret EXCEPT ![p] = [kind |-> "list", val |-> s]]
  /\ pc' = [pc EXCEPT ![p] = "exit"]
  /\ UNCHANGED <<config, started, store, now, ncalls, call, conn, lock, tx, result,
                 req, resp, history>>
  /\ UNCHANGED chat

\* ------------------------------- get_connection: leaving the `with` block
\* The history of a key after the call of p is over.
HistoryAfter(p) ==
  LET c == call[p]
      ok == ret[p].kind # "raise"
      k == c.key
      wrote == tx[p].del # {} \/ tx[p].add # {}
      through == startGen[p].gen = gen[k] /\ startGen[p].present
  IN
  /\ gen' = IF ok /\ c.op \in {"create", "delete"} /\ wrote
            THEN [gen EXCEPT ![k] = @ + 1] ELSE gen
  /\ trueReturns' =
       IF ok /\ c.op = "create" THEN [trueReturns EXCEPT ![k] = 0]
       ELSE IF c.op = "validate" /\ ret[p] = Bool(TRUE)
            THEN [trueReturns EXCEPT ![k] = @ + 1]
            ELSE trueReturns
  /\ valDone' =
       IF ok /\ c.op \in {"create", "delete"} /\ wrote
       THEN [valDone EXCEPT ![k] = [whole |-> 0, other |-> 0]]
       ELSE IF c.op = "validate"
            THEN IF through
                 THEN [valDone EXCEPT ![k].whole = @ + 1]
                 ELSE [valDone EXCEPT ![k].other = @ + 1]
            ELSE valDone

\* Variant: a commit that removes no row (a soft delete).
CommittedKeepsRows(tab, t) == tab \cup t.add
\* What a transaction's end does to the table: commit installs the row versions
\* it wrote, rollback drops them.
Committed(tab, t) == (tab \ t.del) \cup t.add

\* Variant: close() only after a commit, not in a `finally`.
get_connection_exit_leaks(p) ==
  /\ pc[p] = "exit"
  /\ table' = (IF ret[p].kind = "raise" THEN table ELSE Committed(table, tx[p]))
  /\ tx' = [tx EXCEPT ![p] = NoTx]
  /\ lock' = [lock EXCEPT ![p] = NoLock]
  /\ conn' = [conn EXCEPT ![p] = IF ret[p].kind = "raise" THEN "open" ELSE "closed"]
  /\ pc' = [pc EXCEPT ![p] = "done"]
  /\ HistoryAfter(p)
  /\ UNCHANGED <<config, started, tableExists, idSeq, now, ncalls, call, result, ret,
                 req, resp, startGen>>
  /\ UNCHANGED chat

\* yield returns: connection.commit() on a normal exit, connection.rollback() and
\* re-raise on an exception, connection.close() in either case.
get_connection_exit(p) ==
  /\ pc[p] = "exit"
  /\ table' = (IF ret[p].kind = "raise" THEN table ELSE Committed(table, tx[p]))
  /\ tx' = [tx EXCEPT ![p] = NoTx]
  /\ lock' = [lock EXCEPT ![p] = NoLock]
  /\ conn' = [conn EXCEPT ![p] = "closed"]
  /\ pc' = [pc EXCEPT ![p] = "done"]
  /\ HistoryAfter(p)
  /\ UNCHANGED <<config, started, tableExists, idSeq, now, ncalls, call, result, ret,
                 req, resp, startGen>>
  /\ UNCHANGED chat

\* ------------------------------------------------------ storage failures
\* cursor.execute raises (the connection is lost, the database stays locked):
\* the statement has no effect, the method's `except Exception` logs and
\* re-raises, and the error reaches the `except` of get_connection.
execute_raises(p) ==
  /\ pc[p] \in {"stmt", "update"}
  /\ ret' = [ret EXCEPT ![p] = Raise("OperationalError")]
  /\ pc' = [pc EXCEPT ![p] = "exit"]
  /\ UNCHANGED <<config, started, store, now, ncalls, call, conn, lock, tx, result,
                 req, resp, history>>
  /\ UNCHANGED chat

\* connection.commit() raises after the body has returned: the error is caught by
\* the same `except`, which rolls back and re-raises; the method's return value
\* is lost.
commit_raises(p) ==
  /\ pc[p] = "exit" /\ ret[p].kind # "raise"
  /\ ret' = [ret EXCEPT ![p] = Raise("OperationalError")]
  /\ UNCHANGED <<config, started, store, now, ncalls, pc, call, conn, lock, tx, result,
                 req, resp, history>>
  /\ UNCHANGED chat

\* ------------------------------------------------ the Authorization header
\* A header is absent or present; a present one is held as authorization.split(" ").
Absent == [present |-> FALSE, words |-> <<>>]
Header(ws) == [present |-> TRUE, words |-> ws]

Headers ==
  {Absent, Header(<<"">>), Header(<<"Basic", "k1">>), Header(<<"Bearer", "k1">>),
   Header(<<"Bearer", ADMIN_TOKEN>>), Header(<<"Bearer", ADMIN_TOKEN, "x">>)}

\* not authorization
Empty(h) == h.words = <<"">>
\* authorization.startswith("Bearer ")
StartsWithBearer(h) == Len(h.words) >= 2 /\ h.words[1] = "Bearer"
\* authorization.split(" ")[1]
Token(h) == h.words[2]

Pass(token) == [status |-> 0, token |-> token]
Reject(status) == [status |-> status, token |-> ""]

\* authorization: str = Header(...): a required parameter; without the header the
\* framework answers 422 and the dependency is not called.
HeaderRequired(h) == ~h.present

\* Variant: an admin check that lets every request through.
validate_admin_token_off(h) == Pass("")
\* validate_admin_token.
validate_admin_token(h) ==
  IF HeaderRequired(h) THEN Reject(422)
  ELSE IF IGNPRE_API_KEYS THEN Pass("")
  ELSE IF Empty(h) \/ ~StartsWithBearer(h) THEN Reject(401)
  ELSE IF Token(h) # ADMIN_TOKEN THEN Reject(403)
  ELSE Pass(Token(h))

\* Variant: a key check that lets the admin secret through without asking the store.
validate_api_key_header_admin(h) ==
  IF HeaderRequired(h) THEN Reject(422)
  ELSE IF IGNPRE_API_KEYS THEN Pass("")
  ELSE IF Empty(h) \/ ~StartsWithBearer(h) THEN Reject(401)
  ELSE IF Token(h) = ADMIN_TOKEN THEN Pass(Token(h))
  ELSE [status |-> -1, token |-> Token(h)]
\* validate_api_key, up to its call of db_manager.validate_api_key(token):
\* status -1 stands for "ask the store".
validate_api_key_header(h) ==
  IF HeaderRequired(h) THEN Reject(422)
  ELSE IF IGNPRE_API_KEYS THEN Pass("")
  ELSE IF Empty(h) \/ ~StartsWithBearer(h) THEN Reject(401)
  ELSE [status |-> -1, token |-> Token(h)]

\* ------------------------------------------------------------- requests
AdminRequests ==
  [route : {"list"}, header : Headers, key : {"-"}, description : {"None"}, body : {NoBody}]
    \cup [route : {"create"}, header : Headers, key : {"-"}, description : {"d1"}, body : {NoBody}]
    \cup [route : {"delete"}, header : Headers, key : Keys, description : {"None"}, body : {NoBody}]

\* ChatMessage and the parsed ChatCompletionRequest: model (the field's default
\* DEFAULT_MODEL when the body names none; "" also stands for null), messages,
\* stream.
Message(role, content) == [role |-> role, content |-> content]
\* Bodies: a model that is empty, the default, another listed one, an unlisted
\* one; no message, one, two; each buffered and streamed.
ChatBodies ==
  {[model |-> c[1], stream |-> st, messages |-> c[2]] :
     c \in {<<"", <<Message("user", "hi")>>>>,
            <<DEFAULT_MODEL, <<Message("user", "hi")>>>>,
            <<"o3-mini", <<Message("user", "hi"), Message("assistant", "ok")>>>>,
            <<"not-a-real-model", <<>>>>},
     st \in BOOLEAN}

\* Chat requests with every kind of header, and chat requests with every kind of body.
ChatRequests ==
  [route : {"chat"}, header : Headers, key : {"-"}, description : {"None"},
   body : [model : {DEFAULT_MODEL}, stream : BOOLEAN, messages : {<<Message("user", "hi")>>}]]
ChatRequestsAnyBody ==
  [route : {"chat"}, header : {Header(<<"Bearer", "k1">>)}, key : {"-"}, description : {"None"},
   body : ChatBodies]
\* The requests that give the store a key: POST /api-keys/ with the admin secret.
KeyRequests ==
  {r \in AdminRequests : r.route = "create" /\ r.header = Header(<<"Bearer", ADMIN_TOKEN>>)}

\* The task of a new request has no store call behind it yet.
NoStoreCall(p) ==
  /\ call' = [call EXCEPT ![p] = NoCall]
  /\ conn' = [conn EXCEPT ![p] = "none"]
  /\ result' = [result EXCEPT ![p] = NoResult]
  /\ ret' = [ret EXCEPT ![p] = NoRet]
  /\ startGen' = [startGen EXCEPT ![p] = NoStart]

\* ... and no provider call, no frames and no response body.
NoProviderCall(p) ==
  /\ provider' = [provider EXCEPT ![p] = NoProvider]
  /\ frames' = [frames EXCEPT ![p] = <<>>]
  /\ response' = [response EXCEPT ![p] = NoResponse]

Answer(p, status, detail) ==
  /\ resp' = [resp EXCEPT ![p] = [status |-> status, detail |-> detail]]
  /\ pc' = [pc EXCEPT ![p] = "responded"]

\* A request to /api-keys: the router's dependency validate_admin_token runs first.
AdminRequest(p, r) ==
  /\ started
  /\ Free(p)
  /\ ncalls < MaxRequests
  /\ ncalls' = ncalls + 1
  /\ req' = [req EXCEPT ![p] = r]
  /\ IF validate_admin_token(r.header).status = 0
     THEN /\ pc' = [pc EXCEPT ![p] = "handler"]
          /\ resp' = [resp EXCEPT ![p] = NoResp]
     ELSE Answer(p, validate_admin_token(r.header).status, "admin check")
  /\ NoStoreCall(p)
  /\ NoProviderCall(p)
  /\ UNCHANGED <<config, started, store, now, lock, tx, gen, trueReturns, valDone>>

\* Streamed requests arrive one at a time: a stream generator shares nothing
\* with another request's (each has its own DDGS() and its own locals), so two
\* of them side by side show nothing that one does not.
OneStream(p, r) == r.body.stream => \A q \in Procs \ {p} : ~req[q].body.stream

\* A request to /chat/completions: the dependency validate_api_key runs first and,
\* for a well-formed header, calls db_manager.validate_api_key(token).
ChatRequest(p, r) ==
  LET c == validate_api_key_header(r.header) IN
  /\ started
  /\ Free(p)
  /\ ncalls < MaxRequests
  /\ OneStream(p, r)
  /\ ncalls' = ncalls + 1
  /\ req' = [req EXCEPT ![p] = r]
  /\ now' = now
  /\ NoProviderCall(p)
  /\ IF c.status = -1
     THEN /\ Enter(p, [op |-> "validate", key |-> c.token, description |-> "None"])
          /\ resp' = [resp EXCEPT ![p] = NoResp]
     ELSE /\ IF c.status = 0
             THEN /\ pc' = [pc EXCEPT ![p] = "handler"]
                  /\ resp' = [resp EXCEPT ![p] = NoResp]
             ELSE Answer(p, c.status, "key check")
          /\ NoStoreCall(p)
          /\ UNCHANGED <<config, started, store, lock, tx, gen, trueReturns, valDone>>

\* validate_api_key after the store has answered: `if not valid` raises 401.
validate_api_key(p) ==
  /\ pc[p] = "done" /\ req[p].route = "chat"
  /\ IF ret[p] = Bool(TRUE)
     THEN /\ pc' = [pc EXCEPT ![p] = "handler"]
          /\ resp' = resp
     ELSE Answer(p, IF ret[p].kind = "raise" THEN 500 ELSE 401, "key check")
  /\ UNCHANGED <<config, started, store, now, ncalls, call, conn, lock, tx, result, ret,
                 req, history>>
  /\ UNCHANGED chat

\* ------------------------------------------------- the /api-keys handlers
\* `level=logger.ERROR` / `level=logger.WARNING` in keys.py: logger is a
\* logging.Logger, which has no such attribute, so the log call raises
\* AttributeError in place of the HTTPException that follows it.  Raised in an
\* `except Exception` block it leaves the handler and general_exception_handler
\* answers 500 with its text.
LoggerLevelError == "'Logger' object has no attribute"

\* The handler starts: under IGNPRE_API_KEYS it answers without the store,
\* otherwise it calls the store method.
list_api_keys(p) ==
  /\ pc[p] = "handler" /\ req[p].route = "list"
  /\ IF IGNPRE_API_KEYS
     THEN /\ Answer(p, 200, "api_keys")
          /\ UNCHANGED <<config, started, store, call, conn, lock, tx, result, ret,
                         history>>
     ELSE /\ Enter(p, [op |-> "list", key |-> "-", description |-> "None"])
          /\ resp' = resp
  /\ UNCHANGED <<ncalls, req, now>>
  /\ UNCHANGED chat

\* new_key = secrets.token_hex(16), then db_manager.create_api_key(new_key, description).
create_api_key_route(p) ==
  /\ pc[p] = "handler" /\ req[p].route = "create"
  /\ \E new_key \in Keys :
       IF IGNPRE_API_KEYS
       THEN /\ Answer(p, 201, new_key)
            /\ UNCHANGED <<config, started, store, call, conn, lock, tx, result, ret,
                           history>>
       ELSE /\ Enter(p, [op |-> "create", key |-> new_key,
                         description |-> req[p].description])
            /\ resp' = resp
  /\ UNCHANGED <<ncalls, req, now>>
  /\ UNCHANGED chat

delete_api_key_route(p) ==
  /\ pc[p] = "handler" /\ req[p].route = "delete"
  /\ IF IGNPRE_API_KEYS
     THEN /\ Answer(p, 200, "deleted")
          /\ UNCHANGED <<config, started, store, call, conn, lock, tx, result, ret,
                         history>>
     ELSE /\ Enter(p, [op |-> "delete", key |-> req[p].key, description |-> "None"])
          /\ resp' = resp
  /\ UNCHANGED <<ncalls, req, now>>
  /\ UNCHANGED chat

\* The store method has returned (or raised) to the handler of an /api-keys route.
KeysResponse(r, v) ==
  IF v.kind = "raise" THEN [status |-> 500, detail |-> LoggerLevelError]
  ELSE CASE r.route = "list"   -> [status |-> 200, detail |-> "api_keys"]
         [] r.route = "create" -> [status |-> 201, detail |-> v.val.key]
         [] r.route = "delete" ->
              IF v.val THEN [status |-> 200, detail |-> "deleted"]
              ELSE [status |-> 500, detail |-> LoggerLevelError]

keys_route_return(p) ==
  /\ pc[p] = "done" /\ req[p].route \in {"list", "create", "delete"}
  /\ Answer(p, KeysResponse(req[p], ret[p]).status, KeysResponse(req[p], ret[p]).detail)
  /\ UNCHANGED <<config, started, store, now, ncalls, call, conn, lock, tx, result, ret,
                 req, history>>
  /\ UNCHANGED chat

\* ------------------------------------------------------ the chat handler
\* Variant: the prompt is taken from the first message.
PromptFirst(messages) == IF messages = <<>> THEN "" ELSE messages[1].content
\* prompt = request.messages[-1].content if request.messages else ""
Prompt(messages) == IF messages = <<>> THEN "" ELSE messages[Len(messages)].content

\* Variant: the requested name is passed on as it is.
ResolveModelVerbatim(m) == m
\* model = request.model if request.model and request.model in
\* settings.AVAILABLE_MODELS else settings.DEFAULT_MODEL
ResolveModel(m) == IF m # "" /\ m \in AVAILABLE_MODELS THEN m ELSE DEFAULT_MODEL

\* What DDGS().chat returns, and what the provider raises (str(e)).
Texts == {"Hello", "Bye"}
ProviderErrors == {"boom"}

\* Variant: a response whose message is empty.
ChatCompletionEmpty(model, content) ==
  [object |-> "chat.completion", model |-> model,
   choices |-> <<[message |-> [role |-> "assistant", content |-> ""],
                  finish_reason |-> "stop", index |-> 0]>>]
\* The response dict of the buffered branch (id and created, both read off the
\* clock, are left out).
ChatCompletion(model, content) ==
  [object |-> "chat.completion", model |-> model,
   choices |-> <<[message |-> [role |-> "assistant", content |-> content],
                  finish_reason |-> "stop", index |-> 0]>>]

\* str() of an HTTPException: its status code and its detail.
StrHTTPException(status, detail) == <<status>> \o detail

\* Variant: a 500 that does not say what went wrong.
GenerationErrorBare(e) ==
  [object |-> "error", status |-> 500, detail |-> <<"internal server error">>]
\* The buffered branch's `except Exception` raises HTTPException(500, <generation
\* failed> + str(e)); the outer `except Exception` catches that one too and raises
\* HTTPException(500, <internal server error> + str of it).  A detail is held as
\* the sequence of its parts, the two fixed texts by their meaning.
GenerationError(e) ==
  [object |-> "error", status |-> 500,
   detail |-> <<"internal server error">>
                \o StrHTTPException("500", <<"generation failed", e>>)]

\* StreamingResponse(ddgs_streamer()): the generator with prompt and model in its closure.
StreamingResponse(prompt, model) == [object |-> "stream", prompt |-> prompt, model |-> model]

\* The frames of ddgs_streamer (the chunk's id and created are left out).
Begin == [data |-> "[BEGIN]"]
Done  == [data |-> "[DONE]"]
\* Variant: every chunk frame carries the first token.
ChunkFrameFirstToken(model, token) ==
  [object |-> "chat.completion.chunk", model |-> model, content |-> 1]
ChunkFrame(model, token) ==
  [object |-> "chat.completion.chunk", model |-> model, content |-> token]
ErrorFrame(e) == [error |-> TRUE, message |-> e]

\* chat_completions: prompt and model, then either the StreamingResponse is
\* returned (its generator has not run yet) or DDGS().chat(prompt, model=model)
\* is called, which returns a text or raises.
chat_completions(p) ==
  LET b == req[p].body
      prompt == Prompt(b.messages)
      model == ResolveModel(b.model)
  IN
  /\ pc[p] = "handler" /\ req[p].route = "chat"
  /\ IF b.stream
     THEN /\ response' = [response EXCEPT ![p] = StreamingResponse(prompt, model)]
          /\ resp' = [resp EXCEPT ![p] = [status |-> 200, detail |-> "stream"]]
          /\ pc' = [pc EXCEPT ![p] = "stream_begin"]
          /\ provider' = provider
     ELSE /\ \E state \in {"returned", "raised"} :
               IF state = "returned"
                  THEN \E r \in Texts :
                         /\ provider' = [provider EXCEPT ![p] =
                               [NoProvider EXCEPT !.method = "chat", !.prompt = prompt,
                                  !.model = model, !.calls = 1, !.state = "returned", !.out = r]]
                         /\ response' = [response EXCEPT ![p] = ChatCompletion(model, r)]
                         /\ Answer(p, 200, "chat.completion")
                  ELSE \E e \in ProviderErrors :
                         /\ provider' = [provider EXCEPT ![p] =
                               [NoProvider EXCEPT !.method = "chat", !.prompt = prompt,
                                  !.model = model, !.calls = 1, !.state = "raised", !.out = e]]
                         /\ response' = [response EXCEPT ![p] = GenerationError(e)]
                         /\ Answer(p, 500, "error")
  /\ frames' = frames
  /\ UNCHANGED <<config, started, store, now, ncalls, call, conn, lock, tx, result, ret,
                 req, history>>

\* ddgs_streamer, first next(): yield "data: [BEGIN]".
ddgs_streamer_begin(p) ==
  /\ pc[p] = "stream_begin"
  /\ frames' = [frames EXCEPT ![p] = Append(@, Begin)]
  /\ pc' = [pc EXCEPT ![p] = "stream_loop"]
  /\ UNCHANGED <<config, started, store, now, ncalls, call, conn, lock, tx, result, ret,
                 req, resp, provider, response, history>>

\* What an advance of the provider's iterator can do: yield its next token, end,
\* or raise.
ProviderOutcomes == {"token", "end", "raise"}

\* ddgs_streamer, a next() inside `for token in DDGS().chat_yield(prompt,
\* model=model)`: the provider's iterator is advanced.  It yields its next token
\* (tokens are named by their number of arrival), which is wrapped and yielded;
\* or it ends, and the generator runs on to yield "data: [DONE]"; or it raises,
\* and the `except` yields the error frame.
ddgs_streamer_pull(p, outcome) ==
  LET s == response[p]
      pulled == [provider[p] EXCEPT !.method = "chat_yield", !.prompt = s.prompt,
                                    !.model = s.model, !.calls = 1, !.pulls = @ + 1]
  IN
  /\ pc[p] = "stream_loop"
  /\ CASE outcome = "token" ->
            /\ pulled.yielded < MaxChunks
            /\ provider' = [provider EXCEPT ![p] =
                              [pulled EXCEPT !.yielded = @ + 1, !.state = "open"]]
            /\ frames' = [frames EXCEPT ![p] =
                            Append(@, ChunkFrame(s.model, pulled.yielded + 1))]
            /\ pc' = pc
       [] outcome = "end" ->
            /\ provider' = [provider EXCEPT ![p] = [pulled EXCEPT !.state = "ended"]]
            /\ frames' = [frames EXCEPT ![p] = Append(@, Done)]
            /\ pc' = [pc EXCEPT ![p] = "stream_last"]
       [] outcome = "raise" ->
            \E e \in ProviderErrors :
              /\ provider' = [provider EXCEPT ![p] =
                                [pulled EXCEPT !.state = "raised", !.out = e]]
              /\ frames' = [frames EXCEPT ![p] = Append(@, ErrorFrame(e))]
              /\ pc' = [pc EXCEPT ![p] = "stream_error"]
  /\ UNCHANGED <<config, started, store, now, ncalls, call, conn, lock, tx, result, ret,
                 req, resp, response, history>>

\* Variant: a generator that stops after the error frame.
ddgs_streamer_abrupt(p) ==
  /\ pc[p] = "stream_error"
  /\ pc' = [pc EXCEPT ![p] = "stream_last"]
  /\ UNCHANGED <<config, started, store, now, ncalls, call, conn, lock, tx, result, ret,
                 req, resp, chat, history>>

\* ddgs_streamer, the next() after the error frame: yield "data: [DONE]".
ddgs_streamer_done(p) ==
  /\ pc[p] = "stream_error"
  /\ frames' = [frames EXCEPT ![p] = Append(@, Done)]
  /\ pc' = [pc EXCEPT ![p] = "stream_last"]
  /\ UNCHANGED <<config, started, store, now, ncalls, call, conn, lock, tx, result, ret,
                 req, resp, provider, response, history>>

\* ddgs_streamer, the next() after [DONE]: the generator returns, the body is
\* complete and the request's task is over; nothing of it is kept.
ddgs_streamer_return(p) ==
  /\ pc[p] = "stream_last"
  /\ pc' = [pc EXCEPT ![p] = "idle"]
  /\ req' = [req EXCEPT ![p] = NoReq]
  /\ resp' = [resp EXCEPT ![p] = NoResp]
  /\ NoStoreCall(p)
  /\ NoProviderCall(p)
  /\ UNCHANGED <<config, started, store, now, ncalls, lock, tx, gen, trueReturns, valDone>>

\* Variant: an `except` that also catches GeneratorExit and yields its error frame.
ddgs_streamer_close_caught(p) ==
  /\ pc[p] \in {"stream_begin", "stream_loop", "stream_error", "stream_last"}
  /\ pc' = [pc EXCEPT ![p] = "stream_closed"]
  /\ frames' = [frames EXCEPT ![p] = Append(@, ErrorFrame("GeneratorExit"))]
  /\ provider' = [provider EXCEPT ![p].state = IF @ = "open" THEN "released" ELSE @]
  /\ UNCHANGED <<config, started, store, now, ncalls, call, conn, lock, tx, result, ret,
                 req, resp, response, history>>

\* The client is gone and the generator is closed: GeneratorExit is raised at the
\* `yield` where ddgs_streamer stands (or the generator never started).  It is no
\* Exception, so `except Exception` lets it pass; the generator ends without
\* yielding, and the provider's iterator, if one is open, is dropped with it.
ddgs_streamer_close(p) ==
  /\ pc[p] \in {"stream_begin", "stream_loop", "stream_error", "stream_last"}
  /\ pc' = [pc EXCEPT ![p] = "stream_closed"]
  /\ frames' = frames
  /\ provider' = [provider EXCEPT ![p].state = IF @ = "open" THEN "released" ELSE @]
  /\ UNCHANGED <<config, started, store, now, ncalls, call, conn, lock, tx, result, ret,
                 req, resp, response, history>>

\* The task of a request whose stream was closed is over; nothing of it is kept.
ddgs_streamer_dropped(p) ==
  /\ pc[p] = "stream_closed"
  /\ pc' = [pc EXCEPT ![p] = "idle"]
  /\ req' = [req EXCEPT ![p] = NoReq]
  /\ resp' = [resp EXCEPT ![p] = NoResp]
  /\ NoStoreCall(p)
  /\ NoProviderCall(p)
  /\ UNCHANGED <<config, started, store, now, ncalls, lock, tx, gen, trueReturns, valDone>>

\* ------------------------------------------------------------------ Next
\* The statements of the store methods and the end of their `with` block.
StoreStep(p) ==
  \/ create_api_key(p)
  \/ delete_api_key(p)
  \/ validate_api_key_returning(p)
  \/ validate_api_key_select(p)
  \/ validate_api_key_update(p)
  \/ get_all_api_keys(p)
  \/ get_connection_exit(p)

\* The key store under callers of its methods.
Next ==
  \/ Startup
  \/ \E p \in Procs : \E c \in Calls : StoreCall(p, c)
  \/ \E p \in Procs : initialize_db(p)
  \/ \E p \in Procs : StoreStep(p)

Spec == Init /\ [][Next]_vars

\* The key store with a storage that may fail under any statement and any
\* commit, under calls about one key.
FaultCalls ==
  {c \in Calls : c.op # "initialize" /\ c.key # ADMIN_TOKEN /\ (c.op = "create" => c.description = "d1")}

NextFaults ==
  \/ Startup
  \/ \E p \in Procs : \E c \in FaultCalls : StoreCall(p, c)
  \/ \E p \in Procs : StoreStep(p)
  \/ \E p \in Procs : execute_raises(p)
  \/ \E p \in Procs : commit_raises(p)

SpecFaults == Init /\ [][NextFaults]_vars

\* The list and create routes under the admin secret, with a storage that may fail.
AdminKeyRequests ==
  {r \in AdminRequests : r.route \in {"list", "create"} /\ r.header = Header(<<"Bearer", ADMIN_TOKEN>>)}

NextKeysFaults ==
  \/ Startup
  \/ \E p \in Procs : \E r \in AdminKeyRequests : AdminRequest(p, r)
  \/ \E p \in Procs : list_api_keys(p)
  \/ \E p \in Procs : create_api_key_route(p)
  \/ \E p \in Procs : keys_route_return(p)
  \/ \E p \in Procs : create_api_key(p)
  \/ \E p \in Procs : get_all_api_keys(p)
  \/ \E p \in Procs : get_connection_exit(p)
  \/ \E p \in Procs : execute_raises(p)
  \/ \E p \in Procs : commit_raises(p)

SpecKeysFaults == Init /\ [][NextKeysFaults]_vars

\* The HTTP surface: requests to the /api-keys routes and to /chat/completions,
\* with a provider whose streams are empty.
NextHttp ==
  \/ Startup
  \/ \E p \in Procs : \E r \in AdminRequests : AdminRequest(p, r)
  \/ \E p \in Procs : \E r \in ChatRequests : ChatRequest(p, r)
  \/ \E p \in Procs : validate_api_key(p)
  \/ \E p \in Procs : list_api_keys(p)
  \/ \E p \in Procs : create_api_key_route(p)
  \/ \E p \in Procs : delete_api_key_route(p)
  \/ \E p \in Procs : keys_route_return(p)
  \/ \E p \in Procs : chat_completions(p)
  \/ \E p \in Procs : ddgs_streamer_begin(p)
  \/ \E p \in Procs : ddgs_streamer_pull(p, "end")
  \/ \E p \in Procs : ddgs_streamer_return(p)
  \/ \E p \in Procs : StoreStep(p)

SpecHttp == Init /\ [][NextHttp]_vars

\* The chat route alone, with every kind of request body; keys come into the
\* store through POST /api-keys/.
NextChat ==
  \/ Startup
  \/ \E p \in Procs : \E r \in KeyRequests : AdminRequest(p, r)
  \/ \E p \in Procs : create_api_key_route(p)
  \/ \E p \in Procs : keys_route_return(p)
  \/ \E p \in Procs : \E r \in ChatRequestsAnyBody : ChatRequest(p, r)
  \/ \E p \in Procs : validate_api_key(p)
  \/ \E p \in Procs : chat_completions(p)
  \/ \E p \in Procs : ddgs_streamer_begin(p)
  \/ \E p \in Procs : \E outcome \in ProviderOutcomes : ddgs_streamer_pull(p, outcome)
  \/ \E p \in Procs : ddgs_streamer_done(p)
  \/ \E p \in Procs : ddgs_streamer_return(p)
  \/ \E p \in Procs : ddgs_streamer_close(p)
  \/ \E p \in Procs : ddgs_streamer_dropped(p)
  \/ \E p \in Procs : create_api_key(p)
  \/ \E p \in Procs : validate_api_key_returning(p)
  \/ \E p \in Procs : validate_api_key_select(p)
  \/ \E p \in Procs : validate_api_key_update(p)
  \/ \E p \in Procs : get_connection_exit(p)

SpecChat == Init /\ [][NextChat]_vars


\* ---------------------------------------------------------------- claims
\* A call of p is over in this step: its `with` block is left.
Leaves(p) == pc[p] = "exit" /\ pc'[p] = "done"

\* The key of p's call had (had no) row when the call began and no creation or
\* deletion of that key was committed since.
PresentThroughout(p) == startGen[p].present /\ startGen[p].gen = gen[call[p].key]
AbsentThroughout(p)  == ~startGen[p].present /\ startGen[p].gen = gen[call[p].key]

\* C1: with bypass off, a finished validate(key) has returned true exactly when
\* its UPDATE incremented the usage_count of a row holding the key; a call that
\* returned false incremented nothing.
C1_ValidateReturnsWhetherItIncremented ==
  \A p \in Procs :
    (pc[p] = "done" /\ call[p].op = "validate" /\ ~IGNPRE_API_KEYS)
      => /\ ret[p].kind = "bool"
         /\ ret[p].val <=> (result[p].rowcount = 1)

\* C2: no lost updates.  For every row, the validations of its key that ran from
\* begin to end while the row existed have each added one to usage_count, and
\* nothing else has: usage_count is at least their number, and exceeds it by at
\* most the number of other validations of the key finished since the row was
\* created (exactly their number when there are no others).
C2_NoLostUpdates ==
  \A r \in table :
    /\ valDone[r.key].whole <= r.usage_count
    /\ r.usage_count <= valDone[r.key].whole + valDone[r.key].other

\* Two validations of a stored key that both began at usage_count 0 are over, on
\* the select-then-update path, and the count is 2.
C2_Witness ==
  /\ ~DATABASE_URL /\ ~IGNPRE_API_KEYS
  /\ \E r \in table :
       /\ r.usage_count = 2
       /\ valDone[r.key] = [whole |-> 2, other |-> 0]
       /\ \A p \in Procs :
            /\ pc[p] = "done" /\ call[p] = [op |-> "validate", key |-> r.key, description |-> "None"]
            /\ startGen[p].count = 0

\* C3: a validate of a key that has no row from the call's begin to its end
\* returns false, and leaving its block changes no row and creates none.
C3_UnknownKeyChangesNothing ==
  [][\A p \in Procs :
       (Leaves(p) /\ call[p].op = "validate" /\ AbsentThroughout(p))
         => /\ ret'[p] = Bool(FALSE)
            /\ table' = table]_vars

C3_Witness ==
  \E p \in Procs :
    /\ pc[p] = "done" /\ call[p].op = "validate" /\ ~IGNPRE_API_KEYS
    /\ AbsentThroughout(p)
    /\ ret[p] = Bool(FALSE)
    /\ table # {}

\* C4: delete(key) of a key absent throughout the call returns false, raises
\* nothing and leaves the table unchanged; delete(key) of a key present
\* throughout returns true and removes exactly the row of that key; a delete that
\* returns true always removes exactly that row; and a validate of a key that was
\* deleted before the call began and not created again since returns false.
C4_DeleteIsPermanent ==
  [][\A p \in Procs :
       /\ (Leaves(p) /\ call[p].op = "delete")
            => /\ ret[p].kind = "bool"
               /\ AbsentThroughout(p) => (ret[p] = Bool(FALSE) /\ table' = table)
               /\ PresentThroughout(p) => ret[p] = Bool(TRUE)
               /\ ret[p] = Bool(TRUE) =>
                    /\ \E r \in table : r.key = call[p].key
                    /\ table' = {r \in table : r.key # call[p].key}
               /\ ret[p] = Bool(FALSE) => table' = table
       /\ (Leaves(p) /\ call[p].op = "validate" /\ AbsentThroughout(p)
             /\ startGen[p].gen > 0)
            => ret[p] = Bool(FALSE)]_vars

\* A key was created and deleted, and a validate of it begun afterwards has
\* returned false.
C4_Witness ==
  \E p \in Procs :
    /\ pc[p] = "done" /\ call[p].op = "validate" /\ ~IGNPRE_API_KEYS
    /\ startGen[p].gen = 2 /\ AbsentThroughout(p)
    /\ ret[p] = Bool(FALSE)

\* C5: no two rows of the table hold the same key, and no two the same id.
C5_KeysAndIdsUnique ==
  \A r1, r2 \in table :
    r1 # r2 => (r1.key # r2.key /\ r1.id # r2.id)

\* Two creations of the same key overlapped: one is stored, the other was refused.
C5_Witness ==
  \E p, q \in Procs :
    /\ p # q
    /\ pc[p] = "done" /\ pc[q] = "done"
    /\ call[p].op = "create" /\ call[q].op = "create" /\ call[p].key = call[q].key
    /\ ret[p].kind = "record" /\ ret[q] = Raise("IntegrityError")
    /\ \E r \in table : r.key = call[p].key /\ r.id = ret[p].val.id


\* C6: every row has usage_count 0 when it is created, its usage_count never
\* decreases while it exists, and in every state it equals the number of
\* validate calls of its key that returned true since the row was created.
C6_UsageCountsValidations ==
  /\ [](\A r \in table : r.usage_count = trueReturns[r.key])
  /\ [][/\ \A r \in table' :
             (\A o \in table : o.id # r.id) => r.usage_count = 0
        /\ \A o \in table : \A r \in table' :
             r.id = o.id => r.usage_count >= o.usage_count]_vars

\* A row was validated twice.
C6_Witness ==
  \E r \in table : r.usage_count = 2 /\ trueReturns[r.key] = 2

\* C7: a row's last_used_at is null exactly when its usage_count is 0.
C7_NullUntilFirstValidation ==
  \A r \in table : (r.last_used_at = Null) <=> (r.usage_count = 0)

\* One row was never validated and another was.
C7_Witness ==
  \E r1, r2 \in table :
    /\ r1.usage_count = 0 /\ r1.last_used_at = Null
    /\ r2.usage_count = 1 /\ r2.last_used_at # Null

\* A request is turned away by an access check in this step.
Rejected(p) ==
  /\ pc[p] # "responded" /\ pc'[p] = "responded"
  /\ resp'[p].detail \in {"admin check", "key check"}

\* C8: a row's id, key, description and created_at never change while it exists;
\* its usage_count and last_used_at change only in the step that ends a validate
\* of its key that returns true, and then by one increment; a rejected request
\* changes no row.
C8_RowsChangeOnlyThroughValidation ==
  [][/\ \A o \in table : \A r \in table' :
          r.id = o.id =>
            /\ r.key = o.key
            /\ r.description = o.description
            /\ r.created_at = o.created_at
            /\ (r.usage_count # o.usage_count \/ r.last_used_at # o.last_used_at) =>
                 /\ \E p \in Procs :
                      /\ Leaves(p)
                      /\ call[p] = [op |-> "validate", key |-> o.key, description |-> "None"]
                      /\ ret[p] = Bool(TRUE)
                 /\ r.usage_count = o.usage_count + 1
     /\ \A p \in Procs : Rejected(p) => table' = table]_vars

\* A request that presented a stored key to an /api-keys route was rejected, and
\* the row of that key is as it was created.
C8_Witness ==
  \E p \in Procs : \E r \in table :
    /\ pc[p] = "responded" /\ resp[p].status = 403
    /\ r.key = Token(req[p].header)
    /\ r.usage_count = 0

\* C9: in bypass mode the store is never touched: the table stays as it was at
\* start (absent, without rows, no id handed out), no caller ever holds a
\* connection, a lock or uncommitted rows, and the methods return at once:
\* create a record of the key and the description without an id, delete and
\* validate true, list_all the empty sequence, initialize nothing.
C9_BypassNeverTouchesStore ==
  IGNPRE_API_KEYS =>
    /\ table = {} /\ ~tableExists /\ idSeq = 0
    /\ \A p \in Procs :
         /\ conn[p] = "none" /\ lock[p] = NoLock /\ tx[p] = NoTx
         /\ pc[p] \notin {"stmt", "update", "exit"}
         /\ (pc[p] = "done" /\ call[p].op = "create") =>
              /\ ret[p].kind = "record"
              /\ DOMAIN ret[p].val = {"key", "description"}
              /\ ret[p].val.key = call[p].key
              /\ ret[p].val.description = call[p].description
         /\ (pc[p] = "done" /\ call[p].op \in {"delete", "validate"}) =>
              ret[p] = Bool(TRUE)
         /\ (pc[p] = "done" /\ call[p].op = "list") =>
              (ret[p].kind = "list" /\ ret[p].val = <<>>)
         /\ (pc[p] = "done" /\ call[p].op = "initialize") =>
              ret[p].kind = "none"

\* In bypass mode a create and a validate have returned.
C9_Witness ==
  /\ IGNPRE_API_KEYS
  /\ \E p, q \in Procs :
       /\ pc[p] = "done" /\ call[p].op = "create"
       /\ pc[q] = "done" /\ call[q].op = "validate"

\* C10: in bypass mode no request is turned away by the admin check or by the
\* key check, whatever its Authorization header, and also without one.
C10_BypassPassesBothChecks ==
  IGNPRE_API_KEYS =>
    \A p \in Procs : resp[p].detail \notin {"admin check", "key check"}

\* C11: with bypass off, a request to an /api-keys route is answered 401 when it
\* carries no Authorization header, 403 when it carries `Bearer ` and a token
\* other than the admin secret, and 200 (on the list route) when it carries the
\* admin secret.
C11_AdminRouteAnswers ==
  \A p \in Procs :
    (~IGNPRE_API_KEYS /\ pc[p] = "responded"
       /\ req[p].route \in {"list", "create", "delete"}) =>
      /\ ~req[p].header.present => resp[p].status = 401
      /\ req[p].header = Header(<<"Bearer", "k1">>) => resp[p].status = 403
      /\ (req[p].header = Header(<<"Bearer", ADMIN_TOKEN>>) /\ req[p].route = "list")
           => resp[p].status = 200

\* C12: with bypass off, a request reaches the handler of an /api-keys route only
\* if its header is `Bearer ` followed by exactly the admin secret and nothing
\* else.
C12_AdminSecretExactly ==
  \A p \in Procs :
    (~IGNPRE_API_KEYS /\ pc[p] = "handler"
       /\ req[p].route \in {"list", "create", "delete"}) =>
      req[p].header = Header(<<"Bearer", ADMIN_TOKEN>>)

\* The request of p has passed the key check (it is with the chat handler or
\* beyond it).
PassedKeyCheck(p) ==
  /\ req[p].route = "chat"
  /\ pc[p] \notin {"idle", "stmt", "update", "exit", "done"}
  /\ resp[p].detail # "key check"

\* C13: with bypass off, a chat request whose header is missing or does not start
\* with `Bearer ` is answered 401 by the key check without a call of the store;
\* one whose token makes validate return false is answered 401; and a request
\* passes the key check exactly when validate returned true.
C13_KeyCheckAnswers ==
  \A p \in Procs :
    (~IGNPRE_API_KEYS /\ req[p].route = "chat") =>
      /\ (~req[p].header.present \/ ~StartsWithBearer(req[p].header)) =>
           /\ pc[p] = "responded" /\ resp[p].detail = "key check"
           /\ resp[p].status = 401
           /\ call[p] = NoCall
      /\ (pc[p] = "responded" /\ resp[p].detail = "key check") => resp[p].status = 401
      /\ (pc[p] = "responded" /\ resp[p].detail = "key check"
            /\ req[p].header.present /\ StartsWithBearer(req[p].header))
           => ret[p] = Bool(FALSE)
      /\ PassedKeyCheck(p) => ret[p] = Bool(TRUE)

\* C15: with bypass off, an admin-authenticated DELETE /api-keys/{key} is answered
\* 404 when the key had no row throughout the call, and 200 "deleted", with the
\* row gone, when it had one.
C15_DeleteAnswers ==
  \A p \in Procs :
    (~IGNPRE_API_KEYS /\ pc[p] = "responded" /\ req[p].route = "delete"
       /\ resp[p].detail # "admin check") =>
      /\ (~startGen[p].present /\ ret[p] = Bool(FALSE)) => resp[p].status = 404
      /\ (startGen[p].present /\ ret[p] = Bool(TRUE)) =>
           resp[p] = [status |-> 200, detail |-> "deleted"]

\* A header the admin check turns away / the key check turns away unseen.
FailsAdminCheck(h) == ~h.present \/ ~StartsWithBearer(h) \/ Token(h) # ADMIN_TOKEN
Malformed(h) == ~h.present \/ ~StartsWithBearer(h)

\* C14: with bypass off, a request to the list, create or delete route that fails
\* the admin check is answered at once, calls no store method, opens no
\* connection, and the step that answers it leaves the table unchanged; a chat
\* request whose header is malformed, or for whose token validate returned
\* false, or whose key check is still under way, has made no provider call
\* (neither chat nor chat_yield), yielded no frame and built no response.
C14_ChecksBeforeHandlers ==
  /\ [](~IGNPRE_API_KEYS =>
        \A p \in Procs :
          /\ (req[p].route \in {"list", "create", "delete"}
                /\ FailsAdminCheck(req[p].header)) =>
               /\ pc[p] = "responded" /\ resp[p].status \in {401, 403, 422}
               /\ call[p] = NoCall /\ conn[p] = "none" /\ tx[p] = NoTx
          /\ (req[p].route = "chat"
                /\ (Malformed(req[p].header) \/ ret[p] # Bool(TRUE)
                      \/ pc[p] \in {"stmt", "update", "exit", "done"})) =>
               /\ provider[p] = NoProvider
               /\ frames[p] = <<>>
               /\ response[p] = NoResponse
               /\ pc[p] \notin {"handler", "stream_begin", "stream_loop", "stream_error",
                                "stream_last"})
  /\ [][~IGNPRE_API_KEYS =>
          \A p \in Procs :
            (req'[p] # req[p] /\ req'[p].route \in {"list", "create", "delete"}
               /\ FailsAdminCheck(req'[p].header)) => table' = table]_vars

\* A create request with a key in place of the admin secret was answered 403, and
\* a streamed chat request was answered 401 after validate returned false.
C14_Witness ==
  /\ ~IGNPRE_API_KEYS
  /\ \E p, q \in Procs :
       /\ pc[p] = "responded" /\ req[p].route = "create" /\ resp[p].status = 403
       /\ pc[q] = "responded" /\ req[q].route = "chat" /\ req[q].body.stream
       /\ call[q].op = "validate" /\ ret[q] = Bool(FALSE) /\ resp[q].status = 401

\* The chunk frames for the first n tokens of a stream of p, in arrival order.
ChunkFrames(p, n) ==
  [i \in 1..n |-> [object |-> "chat.completion.chunk", model |-> response[p].model,
                   content |-> i]]

\* C16: when the provider has yielded n tokens and then ended, the frames of the
\* stream are [BEGIN], the n chunk frames in arrival order, [DONE]: n + 2 frames;
\* while the stream runs its frames are [BEGIN] and the chunk frames of the
\* tokens yielded so far; and the provider was advanced once per token and once
\* more to find its end.
C16_FramesInArrivalOrder ==
  \A p \in Procs :
    /\ (pc[p] = "stream_loop") =>
         frames[p] = <<[data |-> "[BEGIN]"]>> \o ChunkFrames(p, provider[p].yielded)
    /\ (pc[p] = "stream_last" /\ provider[p].state = "ended") =>
         /\ frames[p] = <<[data |-> "[BEGIN]"]>> \o ChunkFrames(p, provider[p].yielded)
                           \o <<[data |-> "[DONE]"]>>
         /\ Len(frames[p]) = provider[p].yielded + 2
         /\ provider[p].pulls = provider[p].yielded + 1

\* A stream of two chunks has ended.
C16_Witness ==
  \E p \in Procs :
    /\ pc[p] = "stream_last" /\ provider[p].state = "ended"
    /\ provider[p].yielded = 2 /\ Len(frames[p]) = 4

\* C17: when the provider has raised after k tokens, the frames are [BEGIN], the
\* k chunk frames, one error frame with the error's text, and then [DONE]; the
\* provider is not advanced after it raised; and every stream that has yielded
\* its last frame begins with [BEGIN] and ends with [DONE], each occurring once.
C17_ErrorFrameThenDone ==
  \A p \in Procs :
    LET k == provider[p].yielded
        upToError == <<[data |-> "[BEGIN]"]>> \o ChunkFrames(p, k)
                       \o <<[error |-> TRUE, message |-> provider[p].out]>>
    IN
    /\ (pc[p] = "stream_error") =>
         /\ frames[p] = upToError
         /\ provider[p].state = "raised" /\ provider[p].pulls = k + 1
    /\ (pc[p] = "stream_last" /\ provider[p].state = "raised") =>
         /\ frames[p] = upToError \o <<[data |-> "[DONE]"]>>
         /\ provider[p].pulls = k + 1
    /\ (pc[p] = "stream_last") =>
         /\ frames[p][1] = [data |-> "[BEGIN]"]
         /\ frames[p][Len(frames[p])] = [data |-> "[DONE]"]
         /\ \A i \in 2..Len(frames[p]) : frames[p][i] # [data |-> "[BEGIN]"]
         /\ \A i \in 1..(Len(frames[p]) - 1) : frames[p][i] # [data |-> "[DONE]"]

\* The provider raised after one chunk, and the stream has yielded its last frame.
C17_Witness ==
  \E p \in Procs :
    /\ pc[p] = "stream_last" /\ provider[p].state = "raised"
    /\ provider[p].yielded = 1 /\ Len(frames[p]) = 4

\* The model a request resolves to.
Resolved(p) ==
  IF req[p].body.model \in AVAILABLE_MODELS THEN req[p].body.model ELSE DEFAULT_MODEL

\* C18: a buffered chat request for which the provider's chat returned the text r
\* is answered 200 with one object: "chat.completion", the resolved model, and a
\* single choice with index 0, role "assistant", content r and finish_reason
\* "stop"; the provider was called once, and not as a stream.
C18_BufferedResponse ==
  \A p \in Procs :
    (req[p].route = "chat" /\ ~req[p].body.stream /\ provider[p].state = "returned") =>
      /\ pc[p] = "responded" /\ resp[p].status = 200
      /\ response[p] =
           [object |-> "chat.completion", model |-> Resolved(p),
            choices |-> <<[message |-> [role |-> "assistant", content |-> provider[p].out],
                           finish_reason |-> "stop", index |-> 0]>>]
      /\ provider[p].method = "chat" /\ provider[p].calls = 1 /\ provider[p].pulls = 0
      /\ frames[p] = <<>>

\* A buffered request was answered with the text "Bye".
C18_Witness ==
  \E p \in Procs :
    /\ pc[p] = "responded" /\ req[p].route = "chat" /\ ~req[p].body.stream
    /\ provider[p].state = "returned" /\ provider[p].out = "Bye"
    /\ response[p].object = "chat.completion"

\* C19: a buffered chat request for which the provider's chat raised is answered
\* with status 500 and a detail that contains the error's text, and with no
\* completion object.
C19_BufferedFailure ==
  \A p \in Procs :
    (req[p].route = "chat" /\ ~req[p].body.stream /\ provider[p].state = "raised") =>
      /\ pc[p] = "responded" /\ resp[p].status = 500
      /\ response[p].object = "error" /\ response[p].status = 500
      /\ \E i \in 1..Len(response[p].detail) : response[p].detail[i] = provider[p].out
      /\ provider[p].calls = 1

\* The provider raised "boom" in a buffered request.
C19_Witness ==
  \E p \in Procs :
    /\ pc[p] = "responded" /\ req[p].route = "chat" /\ ~req[p].body.stream
    /\ provider[p].state = "raised" /\ provider[p].out = "boom"

\* C20: the model handed to the provider, the model of the response object and
\* the model of every chunk frame are the requested model when the allow-list
\* holds it and the default model otherwise; and a request is answered 500 only
\* when the provider raised, whatever model it named.
C20_ModelResolution ==
  \A p \in Procs :
    (req[p].route = "chat") =>
      /\ provider[p].calls > 0 => provider[p].model = Resolved(p)
      /\ response[p].object \in {"chat.completion", "stream"} =>
           response[p].model = Resolved(p)
      /\ \A i \in 1..Len(frames[p]) :
           "content" \in DOMAIN frames[p][i] => frames[p][i].model = Resolved(p)
      /\ (pc[p] = "responded" /\ resp[p].status = 500) => provider[p].state = "raised"

\* An unknown model name was answered with a completion of the default model,
\* and a listed one that is not the default was streamed under its own name.
C20_Witness ==
  \E p \in Procs :
    /\ req[p].body.model = "not-a-real-model" /\ ~req[p].body.stream
    /\ pc[p] = "responded" /\ resp[p].status = 200
    /\ response[p].object = "chat.completion" /\ response[p].model = DEFAULT_MODEL
    /\ provider[p].model = DEFAULT_MODEL
    /\ \E q \in Procs \ {p} :
         /\ req[q].body.model = "o3-mini" /\ req[q].body.stream
         /\ pc[q] = "stream_loop" /\ Len(frames[q]) = 2 /\ frames[q][2].model = "o3-mini"

\* The content of the last message of p's request.
LastContent(p) == req[p].body.messages[Len(req[p].body.messages)].content

\* C21: for a chat request with at least one message, buffered or streamed, the
\* prompt handed to the provider (chat or chat_yield) is the content of the last
\* message, whatever its role; the earlier messages do not appear in the call.
C21_PromptIsLastMessage ==
  \A p \in Procs :
    (req[p].route = "chat" /\ req[p].body.messages # <<>>) =>
      /\ response[p].object = "stream" => response[p].prompt = LastContent(p)
      /\ provider[p].calls > 0 =>
           /\ provider[p].prompt = LastContent(p)
           /\ provider[p].method = (IF req[p].body.stream THEN "chat_yield" ELSE "chat")

\* A buffered and a streamed request of two messages, the last one by the
\* assistant, have both called the provider with that message's content.
C21_Witness ==
  \E p, q \in Procs :
    /\ Len(req[p].body.messages) = 2 /\ ~req[p].body.stream
    /\ req[p].body.messages[2].role = "assistant"
    /\ provider[p].method = "chat" /\ provider[p].prompt = "ok"
    /\ Len(req[q].body.messages) = 2 /\ req[q].body.stream
    /\ provider[q].method = "chat_yield" /\ provider[q].prompt = "ok"

\* C22: with bypass off, a store method holds an open connection of its own from
\* its entry until its block is left, and the connection is closed in that one
\* step, whether the body returned or raised; leaving commits what the
\* transaction wrote when the body returned and the commit went through, and
\* changes no row and re-raises the error when the body or the commit raised; no
\* other step changes the table.
C22_ConnectionScoped ==
  /\ [](~IGNPRE_API_KEYS =>
        \A p \in Procs :
          /\ pc[p] \in {"stmt", "update", "exit"} => conn[p] = "open"
          /\ (pc[p] = "done" /\ call[p].op # "none") =>
               (conn[p] = "closed" /\ tx[p] = NoTx /\ lock[p] = NoLock))
  /\ [][~IGNPRE_API_KEYS =>
          /\ \A p \in Procs :
               /\ (conn[p] # "closed" /\ conn'[p] = "closed") =>
                    (Leaves(p) /\ conn[p] = "open")
               /\ (conn[p] # "open" /\ conn'[p] = "open") =>
                    (pc[p] \in {"idle", "done", "handler", "responded"} /\ pc'[p] = "stmt")
               /\ (conn[p] = "open" /\ conn'[p] # "open") => Leaves(p)
               /\ Leaves(p) =>
                    /\ ret'[p] = ret[p]
                    /\ table' = IF ret[p].kind = "raise" THEN table
                                ELSE (table \ tx[p].del) \cup tx[p].add
          /\ table' # table =>
               \E p \in Procs : Leaves(p) /\ ret[p].kind # "raise"]_vars

\* A delete found its row, its commit raised, and the call is over: the
\* connection is closed and the row is still there.
C22_Witness ==
  /\ ~IGNPRE_API_KEYS
  /\ \E p \in Procs :
       /\ pc[p] = "done" /\ call[p].op = "delete" /\ result[p].rowcount = 1
       /\ ret[p] = Raise("OperationalError") /\ conn[p] = "closed"
       /\ \E r \in table : r.key = call[p].key

\* The INSERT of p's create runs in this step.
Inserts(p) == pc[p] = "stmt" /\ call[p].op = "create" /\ pc'[p] = "exit"

\* C23: with bypass off, the INSERT of a create whose key no row holds goes
\* through (unless the storage itself fails) and the call, when it returns,
\* has added exactly one row and returns that row's id, key, description and
\* created_at, the row being new: never used, with an id no row had; the INSERT
\* of a create whose key a row holds raises, and a create that raises leaves
\* every row, usage_count and last_used_at included, as it was.
C23_CreateInsertsOneRowOrFails ==
  [][~IGNPRE_API_KEYS =>
       \A p \in Procs :
         /\ Inserts(p) =>
              IF \E r \in table : r.key = call[p].key
              THEN ret'[p].kind = "raise" /\ tx'[p] = NoTx
              ELSE \/ ret'[p] = Raise("OperationalError") /\ tx'[p] = NoTx
                   \/ /\ ret'[p].kind = "record"
                      /\ DOMAIN ret'[p].val = {"id", "key", "description", "created_at"}
                      /\ ret'[p].val.key = call[p].key
                      /\ ret'[p].val.description = call[p].description
         /\ (Leaves(p) /\ call[p].op = "create") =>
              IF ret[p].kind = "raise"
              THEN table' = table
              ELSE /\ Cardinality(table' \ table) = 1 /\ table \subseteq table'
                   /\ \A r \in table' \ table :
                        /\ [id |-> r.id, key |-> r.key, description |-> r.description,
                            created_at |-> r.created_at] = ret[p].val
                        /\ r.usage_count = 0 /\ r.last_used_at = Null
                        /\ \A o \in table : o.id # r.id /\ o.key # r.key]_vars

\* A key was created and used once; a second create of it was refused, and the
\* row still shows the one use.
C23_Witness ==
  /\ ~IGNPRE_API_KEYS
  /\ \E p \in Procs : \E r \in table :
       /\ pc[p] = "done" /\ call[p].op = "create" /\ call[p].key = r.key
       /\ ret[p] = Raise("IntegrityError")
       /\ r.usage_count = 1 /\ r.last_used_at # Null

\* C24: with bypass off, when the store method called for an admin-authenticated
\* list or create request raises, the request is answered 500 with a detail
\* that carries the text of the storage error.
C24_StorageFailureAnswer ==
  \A p \in Procs :
    (~IGNPRE_API_KEYS /\ pc[p] = "responded" /\ req[p].route \in {"list", "create"}
       /\ resp[p].detail # "admin check" /\ ret[p].kind = "raise") =>
      /\ resp[p].status = 500
      /\ resp[p].detail = ret[p].val

\* The SELECT of p's list runs in this step and returns rows.
Selects(p) ==
  /\ pc[p] = "stmt" /\ call[p].op = "list" /\ pc'[p] = "exit"
  /\ ret'[p].kind = "list"

C26_ClosedStreamStops ==
  /\ [](\A p \in Procs : pc[p] = "stream_closed" => provider[p].state # "open")
  /\ [][\A p \in Procs :
          /\ (pc[p] # "stream_closed" /\ pc'[p] = "stream_closed") =>
               /\ frames'[p] = frames[p]
               /\ provider'[p].pulls = provider[p].pulls
               /\ provider'[p].yielded = provider[p].yielded
               /\ provider'[p].calls = provider[p].calls
          /\ pc[p] = "stream_closed" =>
               /\ pc'[p] \in {"stream_closed", "idle"}
               /\ Len(frames'[p]) <= Len(frames[p])
               /\ provider'[p].pulls <= provider[p].pulls
               /\ pc'[p] = "stream_closed" =>
                    (frames'[p] = frames[p] /\ provider'[p] = provider[p])]_vars

\* A stream was closed after [BEGIN] and one chunk: its frames are those two, it
\* has no [DONE], and the provider's iterator is released.
C26_Witness ==
  \E p \in Procs :
    /\ pc[p] = "stream_closed" /\ provider[p].state = "released"
    /\ provider[p].yielded = 1 /\ provider[p].pulls = 1
    /\ Len(frames[p]) = 2 /\ frames[p][2].content = 1

\* p's call is initialize and it takes a step.
Initializes(p) == call[p].op = "initialize" /\ pc'[p] # pc[p] /\ call'[p] = call[p]

\* C27: initialize can be called any number of times, on a store with or without
\* rows: the table exists once the process has started and after every
\* initialize, no step of an initialize changes, adds or removes a row, and an
\* initialize never raises.
C27_InitializeIdempotent ==
  /\ []((started /\ ~IGNPRE_API_KEYS) => tableExists)
  /\ [](\A p \in Procs :
          (call[p].op = "initialize" /\ pc[p] \in {"exit", "done"}) => ret[p].kind = "none")
  /\ [][\A p \in Procs :
          Initializes(p) =>
            /\ table' = table /\ idSeq' = idSeq
            /\ tableExists => tableExists']_vars

\* Both callers have initialized a store that holds a row.
C27_Witness ==
  /\ ~IGNPRE_API_KEYS /\ tableExists
  /\ \A p \in Procs : pc[p] = "done" /\ call[p].op = "initialize" /\ ret[p].kind = "none"
  /\ \E r \in table : r.usage_count = 0

\* C28: with bypass off, on the select-then-update path, a validate that has
\* returned true has applied its increment to the row of its key, also when a
\* delete of the same key ran beside it.
C28_TrueOnlyWithIncrement ==
  \A p \in Procs :
    (~IGNPRE_API_KEYS /\ ~DATABASE_URL /\ pc[p] = "done"
       /\ call[p].op = "validate" /\ ret[p] = Bool(TRUE)) =>
      result[p].rowcount = 1

\* The request task of p takes this step.
Steps(p) == pc'[p] # pc[p] \/ frames'[p] # frames[p] \/ provider'[p] # provider[p]

\* C29: with bypass off, a chat request whose key has a row throughout its key
\* check adds exactly one to that row's usage_count, in the step that ends the
\* key check, and no other step of the request (the handler, the provider's
\* answer or failure, any frame of the stream, its end or its closing) changes a
\* row; a chat request turned away by the key check has incremented nothing; and
\* every row's usage_count is the number of key checks of its key that passed.
C29_OneIncrementPerChatRequest ==
  /\ [](~IGNPRE_API_KEYS =>
        /\ \A r \in table : r.usage_count = trueReturns[r.key]
        /\ \A p \in Procs :
             (req[p].route = "chat") =>
               /\ (PassedKeyCheck(p) /\ PresentThroughout(p)) => result[p].rowcount = 1
               /\ (pc[p] = "responded" /\ resp[p].detail = "key check") =>
                    result[p].rowcount < 1)
  /\ [][~IGNPRE_API_KEYS =>
          \A p \in Procs :
            (req[p].route = "chat" /\ Steps(p)) =>
              IF Leaves(p) /\ result[p].rowcount = 1
              THEN \E r \in table : \E u \in table' :
                     /\ r.key = call[p].key /\ u.id = r.id /\ u.key = r.key
                     /\ u.usage_count = r.usage_count + 1
                     /\ table' \ {u} = table \ {r}
              ELSE table' = table]_vars

\* A streamed request with the stored key k1 has yielded two chunks, and the
\* key's usage_count is 1.
C29_Witness ==
  /\ ~IGNPRE_API_KEYS
  /\ \E r \in table : r.key = "k1" /\ r.usage_count = 1
  /\ \E p \in Procs :
       /\ req[p].route = "chat" /\ req[p].body.stream /\ call[p].key = "k1"
       /\ pc[p] = "stream_loop" /\ provider[p].yielded = 2

\* C30: with bypass off, a request to the list, create or delete route whose
\* bearer token is not the admin secret, be it a stored key or not, is answered
\* 403 by the admin check without a call of the store; a chat request whose
\* bearer token is the admin secret is looked up in the store under that exact
\* value like any other token: it is answered 401 when validate returned false,
\* validate returns false when no row holds that value throughout the check, and
\* the request passes the key check only if validate returned true, a row of
\* that value having existed during the check.
C30_CredentialsDoNotSubstitute ==
  \A p \in Procs :
    ~IGNPRE_API_KEYS =>
      /\ (req[p].route \in {"list", "create", "delete"}
            /\ StartsWithBearer(req[p].header) /\ Token(req[p].header) # ADMIN_TOKEN) =>
           /\ pc[p] = "responded"
           /\ resp[p] = [status |-> 403, detail |-> "admin check"]
           /\ call[p] = NoCall
      /\ (req[p].route = "chat"
            /\ StartsWithBearer(req[p].header) /\ Token(req[p].header) = ADMIN_TOKEN) =>
           /\ call[p] = [op |-> "validate", key |-> ADMIN_TOKEN, description |-> "None"]
           /\ (pc[p] = "done" /\ AbsentThroughout(p)) => ret[p] = Bool(FALSE)
           /\ (pc[p] = "responded" /\ ret[p] = Bool(FALSE)) =>
                resp[p] = [status |-> 401, detail |-> "key check"]
           /\ PassedKeyCheck(p) =>
                /\ ret[p] = Bool(TRUE)
                /\ startGen[p].present \/ gen[ADMIN_TOKEN] > startGen[p].gen

\* A key other than the admin secret is stored, and a chat request that carried
\* the admin secret was answered 401.
C30_Witness ==
  /\ ~IGNPRE_API_KEYS
  /\ \E r \in table : r.key # ADMIN_TOKEN
  /\ \A r \in table : r.key # ADMIN_TOKEN
  /\ \E p \in Procs :
       /\ req[p].route = "chat" /\ req[p].header = Header(<<"Bearer", ADMIN_TOKEN>>)
       /\ pc[p] = "responded" /\ resp[p].status = 401 /\ ret[p] = Bool(FALSE)

====
